---- MODULE Spec2Model ----
(***************************************************************************)
(* Model of pkg/scanner/scanner.go: the Scanner's polling loop, its lazy   *)
(* one-time provisioning of the scan client, the scan of one image and the *)
(* report of the finished job to perceptor.                                *)
(*                                                                         *)
(* Each goroutine spawned by StartRequestingScanJobs is a task with a      *)
(* program counter; every external call (HTTP POST, download, Scan) is one *)
(* step whose outcome is drawn from the outcomes the callee can produce.   *)
(***************************************************************************)
EXTENDS Integers, Sequences, FiniteSets, TLC

(* ------------------------------ bounds -------------------------------- *)

\* goroutines that StartRequestingScanJobs may spawn (one per call)
MaxTasks == 2
\* failing answers perceptor gives to one finished-job report before a 200
MaxFailures == 2
\* distinct image digests / hub URLs perceptor hands out
NumShas == 2
NumHubs == 2

Tasks == 1..MaxTasks

(* ------------------------------ values -------------------------------- *)

\* error values: nil, or an error whose Error() text is msg.  Go allows an
\* error with an empty text (errors.New("")).
Nil == [isNil |-> TRUE, msg |-> ""]
Err(m) == [isNil |-> FALSE, msg |-> m]

\* *api.ImageSpec; NoImage is the nil pointer
NoImage == [Sha |-> 0, HubURL |-> 0]
ImageSpecs == [Sha : 1..NumShas, HubURL : 1..NumHubs]

\* api.FinishedScanClientJob
NoJob == [Err |-> "none", ImageSpec |-> NoImage]

\* what the executor's Scan can return
ScanResults == {Nil, Err(""), Err("scan failed")}

\* the ways the POST to the next-image path can end without an image: a
\* transport error, a non-200 status, a 200 whose body cannot be read, a 200
\* with malformed JSON, a 200 with {"ImageSpec": null}
NextImageKinds == {"transportErr", "non200", "readErr", "badJSON", "null"}

\* the surroundings of the Scanner: what perceptor, the hub and the scan
\* client can answer
FullEnv ==
    [images |-> ImageSpecs, kinds |-> NextImageKinds,
     scanResults |-> ScanResults, maxFailures |-> MaxFailures,
     accepts |-> TRUE, marshalFails |-> FALSE]

\* surroundings in which perceptor hands out one image and accepts every
\* report at once, and every scan succeeds
SmallEnv ==
    [images |-> {[Sha |-> 1, HubURL |-> 1]}, kinds |-> {"non200", "null"},
     scanResults |-> {Nil}, maxFailures |-> 0,
     accepts |-> TRUE, marshalFails |-> FALSE]

\* surroundings in which perceptor never answers 200 to a finished-job POST
DownEnv == [FullEnv EXCEPT !.accepts = FALSE]

\* surroundings in which json.Marshal of the report may return an error
EncEnv == [FullEnv EXCEPT !.marshalFails = TRUE]

\* surroundings in which every cycle outcome occurs: a failed request, no
\* image, a failed provisioning, a failed scan, a report that cannot be
\* marshaled, a POST that fails before perceptor answers 200
FairEnv ==
    [images |-> {[Sha |-> 1, HubURL |-> 1]}, kinds |-> {"transportErr", "null"},
     scanResults |-> {Nil, Err("scan failed")}, maxFailures |-> 1,
     accepts |-> TRUE, marshalFails |-> TRUE]

\* what the POST to the next-image path can yield in surroundings e
NextImageResponses(e) ==
    {[kind |-> k, spec |-> NoImage] : k \in e.kinds}
    \cup {[kind |-> "image", spec |-> i] : i \in e.images}

\* what downloadScanner's two collaborators can do
DownloadOutcomes == {"downloadFail", "constructFail", "ok"}

\* what one POST to the finished-scan path can yield when it fails
PostFailures == {"transportErr", "non200"}

(* ------------------------------ NewScanner ---------------------------- *)

\* the process environment: the variables of interest and their values;
\* Unset is a variable that is not in the environment ("" is a set variable)
Unset == "<unset>"
EnvVarNames == {"HUB_PASSWORD", "BD_HUB_PASSWORD"}
EnvValues == {Unset, "", "secret"}
OsEnvs == [EnvVarNames -> EnvValues]

\* *Config, as far as the Scanner reads it
Configs ==
    [PasswordEnvVar : EnvVarNames, PerceptorHost : {"perceptor"},
     PerceptorPort : {"port"}]

\* os.LookupEnv and os.Setenv
LookupEnv(e, name) ==
    [value |-> IF e[name] = Unset THEN "" ELSE e[name], ok |-> e[name] # Unset]
Setenv(e, name, v) == [e EXCEPT ![name] = v]

\* the fields of Scanner that are set once (scanClient is a variable)
NoScanner ==
    [perceptorHost |-> "", perceptorPort |-> "", config |-> "", stop |-> "",
     hubPassword |-> "", httpClient |-> ""]

\* a NewScanner that reads the password with os.Getenv
NewScanner_Getenv(cfg, e) ==
    LET l == LookupEnv(e, cfg.PasswordEnvVar) IN
    [scanner |-> [perceptorHost |-> cfg.PerceptorHost,
                  perceptorPort |-> cfg.PerceptorPort,
                  config |-> cfg, stop |-> "stop",
                  hubPassword |-> l.value, httpClient |-> "client"],
     err |-> Nil,
     osEnv |-> Setenv(e, "BD_HUB_PASSWORD", l.value)]

\* NewScanner as a function of the config and the process environment:
\* (scanner, err) and the environment it leaves.  os.Setenv cannot fail
\* here: the key is fixed and a value read from the environment has no NUL
NewScanner(cfg, e) ==
    LET l == LookupEnv(e, cfg.PasswordEnvVar) IN
    IF ~l.ok
    THEN [scanner |-> NoScanner, err |-> Err("unable to get Hub password"),
          osEnv |-> e]
    ELSE [scanner |-> [perceptorHost |-> cfg.PerceptorHost,
                       perceptorPort |-> cfg.PerceptorPort,
                       config |-> cfg, stop |-> "stop",
                       hubPassword |-> l.value, httpClient |-> "client"],
          err |-> Nil,
          osEnv |-> Setenv(e, "BD_HUB_PASSWORD", l.value)]

\* a config and an environment with which NewScanner succeeds
SomeConfig ==
    [PasswordEnvVar |-> "HUB_PASSWORD", PerceptorHost |-> "perceptor",
     PerceptorPort |-> "port"]
SomeOsEnv == [n \in EnvVarNames |-> IF n = "HUB_PASSWORD" THEN "secret" ELSE Unset]

(* ------------------------------- state -------------------------------- *)

VARIABLES
    env,          \* the surroundings; never changes
    boot,         \* "new" before NewScanner, then "ready" or "failed"
    config,       \* the *Config given to NewScanner
    osEnv,        \* the process environment
    scanner,      \* the fields of Scanner other than scanClient
    clientHub,    \* hub URL the cached scan client was downloaded from
    cycleBodies,  \* per task: response bodies of the cycle not yet closed
    scanClient,   \* Scanner.scanClient: 0 is nil, n > 0 the n-th client built
    stopClosed,   \* the stop channel has been closed
    pc,           \* per task: where the goroutine is
    timerFired,   \* per task: the channel of time.After holds a value
    image,        \* per task: local image of requestAndRunScanJob
    finishedJob,  \* per task: local finishedJob handed to finishScan
    retErr,       \* per task: what the last requestAndRunScanJob returned
    failsLeft,    \* per task: failing answers perceptor still gives this report
    clientsBuilt, \* executors constructed so far by NewHubScanClient
    \* history, for stating the properties
    trace,        \* per task: external calls of the current (or last) cycle
    outcome,      \* per task: how the last finished cycle ended
    failsPlanned, \* per task: failing answers perceptor planned for the report
    stopPc,       \* per task: pc of the task when stop was closed
    lateCycle     \* per task: a cycle was begun after stop was closed

vars == <<env, boot, config, osEnv, scanner, clientHub, cycleBodies, scanClient, stopClosed, pc, timerFired, image, finishedJob, retErr,
          failsLeft, clientsBuilt, trace, outcome, failsPlanned, stopPc,
          lateCycle>>

\* what no step of the loop changes
fixed == <<env, boot, config, osEnv, scanner>>

taskLocals == <<fixed, image, finishedJob, retErr, failsLeft, failsPlanned>>
stopHist == <<stopPc, lateCycle>>

\* pcs at which the goroutine is in the select of the loop
IdlePcs == {"select", "blocked"}
\* pcs inside requestAndRunScanJob
CyclePcs == {"request", "provision", "download", "scan", "finish", "post"}

\* one external call, as recorded in trace: what was called, what the
\* callee answered, and the values the caller held
Call(op, resp, img, client, err, report) ==
    [op |-> op, resp |-> resp, img |-> img, client |-> client, err |-> err,
     report |-> report]

\* the loop has not been started
InitLoop(e) ==
    /\ env = e
    /\ clientHub = 0
    /\ cycleBodies = [t \in Tasks |-> 0]
    /\ scanClient = 0
    /\ stopClosed = FALSE
    /\ pc = [t \in Tasks |-> "unstarted"]
    /\ timerFired = [t \in Tasks |-> FALSE]
    /\ image = [t \in Tasks |-> NoImage]
    /\ finishedJob = [t \in Tasks |-> NoJob]
    /\ retErr = [t \in Tasks |-> Nil]
    /\ failsLeft = [t \in Tasks |-> 0]
    /\ clientsBuilt = 0
    /\ trace = [t \in Tasks |-> <<>>]
    /\ outcome = [t \in Tasks |-> "none"]
    /\ failsPlanned = [t \in Tasks |-> 0]
    /\ stopPc = [t \in Tasks |-> "open"]
    /\ lateCycle = [t \in Tasks |-> FALSE]

\* the state after a NewScanner that succeeded
InitIn(e) ==
    /\ InitLoop(e)
    /\ boot = "ready"
    /\ config = SomeConfig
    /\ osEnv = NewScanner(SomeConfig, SomeOsEnv).osEnv
    /\ scanner = NewScanner(SomeConfig, SomeOsEnv).scanner

Init == InitIn(FullEnv)
InitAPI == InitIn(SmallEnv)

(* --------------------- StartRequestingScanJobs ------------------------ *)

\* go func() { for { select { ... time.After(requestScanJobPause) ...
\* the goroutine reaches the select and arms a fresh timer
StartRequestingScanJobs(t) ==
    /\ boot = "ready"
    /\ pc[t] = "unstarted"
    /\ pc' = [pc EXCEPT ![t] = "select"]
    /\ timerFired' = [timerFired EXCEPT ![t] = FALSE]
    /\ UNCHANGED <<scanClient, stopClosed, taskLocals, clientsBuilt, trace,
                   outcome, stopHist, clientHub, cycleBodies>>

\* the caller of the package starts the loop once
StartOnce == StartRequestingScanJobs(1)

\* a caller that calls StartRequestingScanJobs again on the same Scanner
StartAgain ==
    \E t \in Tasks \ {1} :
        /\ pc[t - 1] # "unstarted"
        /\ StartRequestingScanJobs(t)

\* the timer case of the select is taken: requestAndRunScanJob is entered
BeginCycle(t) ==
    /\ pc' = [pc EXCEPT ![t] = "request"]
    /\ timerFired' = [timerFired EXCEPT ![t] = FALSE]
    /\ trace' = [trace EXCEPT ![t] = <<>>]
    /\ cycleBodies' = [cycleBodies EXCEPT ![t] = 0]
    /\ lateCycle' = [lateCycle EXCEPT ![t] = @ \/ stopClosed]

\* which cases of the select can proceed
ReadyCases(t) ==
    (IF stopClosed THEN {"stop"} ELSE {}) \cup
    (IF timerFired[t] THEN {"timer"} ELSE {})

\* the select polls its cases: one ready case is chosen (any of them when
\* several are ready); with none ready the goroutine blocks
Select(t) ==
    /\ pc[t] = "select"
    /\ IF ReadyCases(t) = {}
       THEN /\ pc' = [pc EXCEPT ![t] = "blocked"]
            /\ UNCHANGED <<timerFired, trace, lateCycle, cycleBodies>>
       ELSE \E c \in ReadyCases(t) :
              IF c = "stop"
              THEN /\ pc' = [pc EXCEPT ![t] = "exited"]
                   /\ UNCHANGED <<timerFired, trace, lateCycle, cycleBodies>>
              ELSE BeginCycle(t)
    /\ UNCHANGED <<scanClient, stopClosed, taskLocals, clientsBuilt, outcome,
                   stopPc, clientHub>>

\* requestScanJobPause elapses: a goroutine blocked in the select is woken
\* with the timer case, otherwise the value waits in the timer's channel
TimerFire(t) ==
    /\ pc[t] \in IdlePcs
    /\ ~timerFired[t]
    /\ IF pc[t] = "blocked"
       THEN BeginCycle(t)
       ELSE /\ timerFired' = [timerFired EXCEPT ![t] = TRUE]
            /\ UNCHANGED <<pc, trace, lateCycle, cycleBodies>>
    /\ UNCHANGED <<scanClient, stopClosed, taskLocals, clientsBuilt, outcome,
                   stopPc, clientHub>>

\* the owner of the stop channel closes it: goroutines blocked in the select
\* are woken with the stop case and return
StopSignal ==
    /\ ~stopClosed
    /\ stopClosed' = TRUE
    /\ pc' = [t \in Tasks |-> IF pc[t] = "blocked" THEN "exited" ELSE pc[t]]
    /\ stopPc' = [t \in Tasks |-> pc[t]]
    /\ UNCHANGED <<scanClient, timerFired, taskLocals, clientsBuilt, trace,
                   outcome, lateCycle, clientHub, cycleBodies>>

(* ------------------------ requestAndRunScanJob ------------------------ *)

\* a loop that gives up when requestAndRunScanJob returns an error
Return_LeavesOnError(t, e, o) ==
    /\ pc' = [pc EXCEPT ![t] = IF e.isNil THEN "select" ELSE "exited"]
    /\ timerFired' = [timerFired EXCEPT ![t] = FALSE]
    /\ retErr' = [retErr EXCEPT ![t] = e]
    /\ outcome' = [outcome EXCEPT ![t] = o]

\* a loop driven by a fixed-rate ticker: a tick that fell into the cycle is
\* waiting in the channel when the loop comes back to the select
Return_Ticker(t, e, o) ==
    /\ pc' = [pc EXCEPT ![t] = "select"]
    /\ timerFired' = [timerFired EXCEPT ![t] = TRUE]
    /\ retErr' = [retErr EXCEPT ![t] = e]
    /\ outcome' = [outcome EXCEPT ![t] = o]

\* requestAndRunScanJob returns e to the loop, which logs it and goes back
\* to the select, where time.After arms a fresh timer
Return(t, e, o) ==
    /\ pc' = [pc EXCEPT ![t] = "select"]
    /\ timerFired' = [timerFired EXCEPT ![t] = FALSE]
    /\ retErr' = [retErr EXCEPT ![t] = e]
    /\ outcome' = [outcome EXCEPT ![t] = o]

\* a requestScanJob that does not look at the error of json.Unmarshal
requestScanJob_IgnoresDecodeError(resp) ==
    IF resp.kind \in {"transportErr", "non200", "readErr"}
    THEN [image |-> NoImage, err |-> Err(resp.kind)]
    ELSE [image |-> resp.spec, err |-> Nil]

\* requestScanJob as a function of the response: (image, err)
requestScanJob(resp) ==
    IF resp.kind \in {"transportErr", "non200", "readErr", "badJSON"}
    THEN [image |-> NoImage, err |-> Err(resp.kind)]
    ELSE [image |-> resp.spec, err |-> Nil]

\* a requestAndRunScanJob without the check for a nil image
RunOrSkip_NoNilCheck(res) ==
    IF ~res.err.isNil THEN "reqFailed" ELSE "run"

\* the two early returns after requestScanJob
RunOrSkip(res) ==
    IF ~res.err.isNil THEN "reqFailed"
    ELSE IF res.image = NoImage THEN "noImage"
    ELSE "run"

\* the response bodies that requestScanJob leaves open when it returns: the
\* return on a status other than 200 comes before defer resp.Body.Close()
OpenAfterRequest(kind) == IF kind = "non200" THEN 1 ELSE 0

RequestScanJob(t) ==
    /\ pc[t] = "request"
    /\ \E resp \in NextImageResponses(env) :
        LET res == requestScanJob(resp) IN
        /\ trace' = [trace EXCEPT ![t] =
                        Append(@, Call("request", resp.kind, res.image, 0,
                                       res.err, NoJob))]
        /\ image' = [image EXCEPT ![t] = res.image]
        /\ cycleBodies' = [cycleBodies EXCEPT ![t] = OpenAfterRequest(resp.kind)]
        /\ IF RunOrSkip(res) = "run"
           THEN /\ pc' = [pc EXCEPT ![t] = "provision"]
                /\ UNCHANGED <<timerFired, retErr, outcome>>
           ELSE Return(t, res.err, RunOrSkip(res))
    /\ UNCHANGED <<fixed, scanClient, stopClosed, finishedJob, failsLeft,
                   clientsBuilt, failsPlanned, stopHist, clientHub>>

\* a requestAndRunScanJob that provisions for every job
NeedsProvision_EveryJob(c) == TRUE

\* if scanner.scanClient == nil
NeedsProvision(c) == c = 0

CheckScanClient(t) ==
    /\ pc[t] = "provision"
    /\ pc' = [pc EXCEPT ![t] =
                 IF NeedsProvision(scanClient) THEN "download" ELSE "scan"]
    /\ UNCHANGED <<scanClient, stopClosed, timerFired, taskLocals,
                   clientsBuilt, trace, outcome, stopHist, clientHub,
                   cycleBodies>>

\* downloadScanner as a function of what its collaborators do, n clients
\* having been built before: (scanClient, err)
downloadScanner(o, n) ==
    IF o = "ok"
    THEN [client |-> n + 1, err |-> Nil]
    ELSE [client |-> 0, err |-> Err(o)]

\* a requestAndRunScanJob that logs the provisioning error and goes on
ProvisionOrSkip_GoesOn(res) == "run"

\* the early return after downloadScanner
ProvisionOrSkip(res) ==
    IF ~res.err.isNil THEN "provFailed" ELSE "run"

DownloadScanner(t) ==
    /\ pc[t] = "download"
    /\ \E o \in DownloadOutcomes :
        LET res == downloadScanner(o, clientsBuilt) IN
        /\ trace' = [trace EXCEPT ![t] =
                        Append(@, Call("download", o, image[t], 0, res.err,
                                       NoJob))]
        /\ clientsBuilt' = IF o = "ok" THEN clientsBuilt + 1 ELSE clientsBuilt
        /\ IF ProvisionOrSkip(res) = "run"
           THEN /\ scanClient' = res.client
                /\ clientHub' = image[t].HubURL
                /\ pc' = [pc EXCEPT ![t] = "scan"]
                /\ UNCHANGED <<timerFired, retErr, outcome>>
           ELSE /\ Return(t, res.err, "provFailed")
                /\ UNCHANGED <<scanClient, clientHub>>
    /\ UNCHANGED <<fixed, stopClosed, image, finishedJob, failsLeft,
                   failsPlanned, stopHist, cycleBodies>>

\* errorString := ""; if err != nil { errorString = err.Error() }
ErrorString(e) == IF e.isNil THEN "" ELSE e.msg

\* api.FinishedScanClientJob{Err: errorString, ImageSpec: *image}
NewFinishedJob(e, img) == [Err |-> ErrorString(e), ImageSpec |-> img]

\* scanner.scanClient.Scan(*job), then the finished job is built
Scan(t) ==
    /\ pc[t] = "scan"
    /\ \E e \in env.scanResults :
        /\ trace' = [trace EXCEPT ![t] =
                        Append(@, Call("scan", "", image[t], scanClient, e,
                                       NoJob))]
        /\ finishedJob' = [finishedJob EXCEPT ![t] = NewFinishedJob(e, image[t])]
    /\ pc' = [pc EXCEPT ![t] = "finish"]
    /\ UNCHANGED <<fixed, scanClient, stopClosed, timerFired, image, retErr,
                   failsLeft, clientsBuilt, outcome, failsPlanned, stopHist,
                   clientHub, cycleBodies>>

(* ----------------------------- finishScan ----------------------------- *)

\* what json.Marshal of the report can yield: the report holds only
\* strings, for which Marshal returns no error; surroundings with
\* marshalFails let it return one
MarshalResults(e) == IF e.marshalFails THEN {"ok", "marshalErr"} ELSE {"ok"}

\* a finishScan that logs the Marshal error and goes on
AfterMarshal_GoesOn(m) == "post"

\* the early return after json.Marshal
AfterMarshal(m) == IF m = "ok" THEN "post" ELSE "return"

\* finishScan is entered and the report is marshaled; perceptor will fail k
\* attempts before it answers 200
FinishScanMarshal(t) ==
    /\ pc[t] = "finish"
    /\ \E m \in MarshalResults(env) :
        /\ trace' = [trace EXCEPT ![t] =
                        Append(@, Call("finish", m, NoImage, 0, Nil,
                                       finishedJob[t]))]
        /\ IF AfterMarshal(m) = "post"
           THEN /\ \E k \in 0..env.maxFailures :
                    /\ failsLeft' = [failsLeft EXCEPT ![t] = k]
                    /\ failsPlanned' = [failsPlanned EXCEPT ![t] = k]
                /\ pc' = [pc EXCEPT ![t] = "post"]
                /\ UNCHANGED <<timerFired, retErr, outcome>>
           ELSE /\ Return(t, Err(m), "encodeFailed")
                /\ UNCHANGED <<failsLeft, failsPlanned>>
    /\ UNCHANGED <<fixed, scanClient, stopClosed, image, finishedJob,
                   clientsBuilt, stopHist, clientHub, cycleBodies>>

\* a finishScan that forgets to look at the status code
AfterPost_IgnoresStatus(resp) ==
    IF resp = "transportErr" THEN "continue" ELSE "return"

\* a finishScan that gives up after one attempt
AfterPost_GivesUp(resp) == "return"

\* the body of the for loop after the POST: continue or return nil
AfterPost(resp) == IF resp = "ok200" THEN "return" ELSE "continue"

\* what perceptor answers to the next POST of the report
PostResponses(e, left) ==
    IF ~e.accepts \/ left > 0 THEN PostFailures ELSE {"ok200"}

\* the history and the count of open bodies stop growing at this many POSTs;
\* only a perceptor that never accepts gets that far
PostCap(e) == e.maxFailures + 1

\* the response bodies of finishScan that are open after an iteration:
\* defer resp.Body.Close() in the loop closes them when finishScan returns
OpenAfterPost(n, resp, cap) ==
    IF AfterPost(resp) = "return" THEN 0
    ELSE IF resp = "transportErr" \/ n >= cap THEN n
    ELSE n + 1

\* one iteration of the for loop of finishScan
FinishScanPost(t) ==
    /\ pc[t] = "post"
    /\ \E resp \in PostResponses(env, failsLeft[t]) :
        /\ trace' = [trace EXCEPT ![t] =
                        IF Len(@) < 4 + PostCap(env)
                        THEN Append(@, Call("post", resp, NoImage, 0, Nil,
                                            finishedJob[t]))
                        ELSE @]
        /\ failsLeft' = [failsLeft EXCEPT ![t] = IF @ > 0 THEN @ - 1 ELSE 0]
        /\ cycleBodies' = [cycleBodies EXCEPT ![t] =
                              OpenAfterPost(@, resp, PostCap(env))]
        /\ IF AfterPost(resp) = "return"
           THEN Return(t, Nil, "processed")
           ELSE UNCHANGED <<pc, timerFired, retErr, outcome>>
    /\ UNCHANGED <<fixed, scanClient, stopClosed, image, finishedJob,
                   clientsBuilt, failsPlanned, stopHist, clientHub>>

(* ------------------------------ metrics ------------------------------- *)

\* whether the code calls recordScannerError for a call that ended with
\* resp: requestScanJob does after a transport error, an unreadable body
\* and a failed Unmarshal, finishScan after a failed Marshal and a
\* transport error; a status other than 200 only goes to recordHTTPStats
RecordsScannerError(op, resp) ==
    \/ op = "request" /\ resp \in {"transportErr", "readErr", "badJSON"}
    \/ op = "finish" /\ resp = "marshalErr"
    \/ op = "post" /\ resp = "transportErr"

\* whether the code calls recordHTTPStats: whenever a response came
RecordsHTTPStats(op, resp) ==
    op \in {"request", "post"} /\ resp # "transportErr"

(* --------------------------- specifications --------------------------- *)

Step(t) ==
    \/ Select(t)
    \/ TimerFire(t)
    \/ RequestScanJob(t)
    \/ CheckScanClient(t)
    \/ DownloadScanner(t)
    \/ Scan(t)
    \/ FinishScanMarshal(t)
    \/ FinishScanPost(t)

\* the program as it is run: NewScanner, then one StartRequestingScanJobs
Next ==
    \/ StartOnce
    \/ StopSignal
    \/ \E t \in Tasks : Step(t)

Spec == Init /\ [][Next]_vars

\* any sequence of calls of the public interface
NextAPI ==
    \/ StartOnce
    \/ StartAgain
    \/ StopSignal
    \/ \E t \in Tasks : Step(t)

SpecAPI == InitAPI /\ [][NextAPI]_vars

\* the call of NewScanner
NewScannerCall ==
    /\ boot = "new"
    /\ LET r == NewScanner(config, osEnv) IN
        /\ boot' = IF r.err.isNil THEN "ready" ELSE "failed"
        /\ scanner' = r.scanner
        /\ osEnv' = r.osEnv
    /\ scanClient' = 0
    /\ UNCHANGED <<env, config, stopClosed, pc, timerFired, image,
                   finishedJob, retErr, failsLeft, failsPlanned, clientsBuilt,
                   trace, outcome, stopHist, clientHub, cycleBodies>>

\* the program from before NewScanner, for any config and environment
InitBoot ==
    /\ InitLoop(SmallEnv)
    /\ boot = "new"
    /\ config \in Configs
    /\ osEnv \in OsEnvs
    /\ scanner = NoScanner

NextBoot ==
    \/ NewScannerCall
    \/ StartOnce
    \/ StopSignal
    \/ \E t \in Tasks : Step(t)

SpecBoot == InitBoot /\ [][NextBoot]_vars

\* the stop case of the select is taken
SelectStop(t) == Select(t) /\ pc'[t] = "exited"

\* the program when every call returns and the goroutine is scheduled (weak
\* fairness of its steps), and the select, which picks among its ready
\* cases at random, does not pass over a ready stop case for ever (strong
\* fairness of the stop case)
Fairness == WF_vars(Step(1)) /\ SF_vars(SelectStop(1))

InitFair == InitIn(FairEnv)
SpecFair == InitFair /\ [][Next]_vars /\ Fairness

\* the program when json.Marshal of a report can fail
InitEnc == InitIn(EncEnv)
SpecEnc == InitEnc /\ [][Next]_vars

\* the program with a perceptor that never accepts a finished-job report
InitDown == InitIn(DownEnv)
SpecDown == InitDown /\ [][Next]_vars

(* ------------------------- reading the history ------------------------ *)

\* the calls of kind op that task t made in its current (or last) cycle
CallsOf(t, op) == {i \in 1..Len(trace[t]) : trace[t][i].op = op}
NumCalls(t, op) == Cardinality(CallsOf(t, op))

\* the reports that were POSTed, and those handed to finishScan
ReportsPosted(t) == {trace[t][i].report : i \in CallsOf(t, "post")}
ReportsHandedOver(t) == {trace[t][i].report : i \in CallsOf(t, "finish")}

\* task t has finished a cycle and is back in the loop (or has left it)
CycleOver(t) == pc[t] \in IdlePcs \cup {"exited"} /\ Len(trace[t]) > 0

\* what perceptor and the provisioning answered in the cycle
RequestFailed(t) ==
    \E i \in CallsOf(t, "request") :
        trace[t][i].resp \in {"transportErr", "non200", "readErr", "badJSON"}
NoImageReturned(t) ==
    \E i \in CallsOf(t, "request") : trace[t][i].resp = "null"
ProvisioningFailed(t) ==
    \E i \in CallsOf(t, "download") :
        trace[t][i].resp \in {"downloadFail", "constructFail"}
Skipped(t) == RequestFailed(t) \/ NoImageReturned(t) \/ ProvisioningFailed(t)

(* -------------------------------- C1 ---------------------------------- *)

\* C1: a poll cycle either skips the job (request failed, no image, or
\* provisioning failed) and sends no finished-job POST, or builds exactly one
\* FinishedScanClientJob, hands it to finishScan, and POSTs it at least once;
\* every POST of the cycle carries that one report.
C1_SkippedOrOneReport ==
    \A t \in Tasks :
        /\ NumCalls(t, "finish") <= 1
        /\ ReportsPosted(t) \subseteq ReportsHandedOver(t)
        /\ CycleOver(t) =>
              IF Skipped(t)
              THEN NumCalls(t, "finish") = 0 /\ NumCalls(t, "post") = 0
              ELSE /\ NumCalls(t, "finish") = 1
                   /\ NumCalls(t, "post") >= 1
                   /\ ReportsPosted(t) = ReportsHandedOver(t)

\* a processed job whose report needed a retry, and a skipped job
C1_Witness ==
    \E t \in Tasks :
        /\ CycleOver(t) /\ ~Skipped(t) /\ NumCalls(t, "post") >= 2

(* -------------------------------- C2 ---------------------------------- *)

GotImage(t) ==
    \E i \in CallsOf(t, "request") : trace[t][i].resp = "image"

\* the clients that the scans of the cycle ran on
ScannedOn(t) == {trace[t][i].client : i \in CallsOf(t, "scan")}

\* a cycle that has an image and is past provisioning while scanClient is
\* still nil has called downloadScanner exactly once; no cycle calls it
\* twice; a scan runs on the cached client, which is not nil
C2_OncePerJob ==
    \A t \in Tasks :
        /\ NumCalls(t, "download") <= 1
        /\ (GotImage(t) /\ pc[t] \notin {"provision", "download"}
              /\ scanClient = 0) => NumCalls(t, "download") = 1
        /\ ScannedOn(t) \subseteq {scanClient} \ {0}

\* downloadScanner is called only while scanClient is nil and no download
\* has succeeded; a cached scanClient is never reset or replaced
C2_NeverAgain ==
    /\ \A t \in Tasks :
          NumCalls(t, "download")' > NumCalls(t, "download")
            => scanClient = 0 /\ clientsBuilt = 0
    /\ scanClient # 0 => scanClient' = scanClient

\* C2: while scanClient is nil every cycle that obtains an image calls
\* downloadScanner exactly once; after the first success downloadScanner is
\* never called again and every later job runs on the same cached client.
C2_ProvisionedOnce == []C2_OncePerJob /\ [][C2_NeverAgain]_vars

\* a later job that was scanned on the cached client without a download
C2_Witness ==
    \E t \in Tasks :
        /\ CycleOver(t) /\ NumCalls(t, "scan") = 1
        /\ NumCalls(t, "download") = 0 /\ scanClient = 1

(* -------------------------------- C3 ---------------------------------- *)

ProvisionErrors == {Err("downloadFail"), Err("constructFail")}

\* after a failed provisioning the cycle is over without a scan or a POST,
\* nothing is cached, the error went to the loop, and the loop is back in
\* its select with the next tick still to come (or has seen the stop)
C3_JobDropped ==
    \A t \in Tasks :
        ProvisioningFailed(t) =>
            /\ NumCalls(t, "scan") = 0
            /\ NumCalls(t, "finish") = 0 /\ NumCalls(t, "post") = 0
            /\ scanClient = 0
            /\ retErr[t] \in ProvisionErrors
            /\ pc[t] \in IdlePcs \cup {"exited"}
            /\ pc[t] = "exited" => stopClosed
            /\ pc[t] \in IdlePcs =>
                  ENABLED (TimerFire(t) \/ (timerFired[t] /\ Select(t)))

\* the job that follows a failed provisioning provisions again
C3_RetriesFromScratch ==
    \A t \in Tasks :
        (retErr[t] \in ProvisionErrors /\ pc[t] = "provision")
            => pc'[t] \in {"provision", "download"}

\* C3: when provisioning fails the cycle runs no scan and sends no
\* finished-job POST, scanClient stays nil, the loop returns to idle, the
\* next poll is issued after the next tick and provisions from scratch.
C3_ProvisionFailure == []C3_JobDropped /\ [][C3_RetriesFromScratch]_vars

\* the executor construction failed in the last cycle and the next job is
\* being provisioned again
C3_Witness ==
    \E t \in Tasks :
        retErr[t] = Err("constructFail") /\ pc[t] = "download"

(* -------------------------------- C4 ---------------------------------- *)

\* the image that the next-image request of the cycle returned
RequestedImages(t) == {trace[t][i].img : i \in CallsOf(t, "request")}

\* C4: the report of a processed job carries the ImageSpec that the
\* next-image request returned; its Err is non-empty if Scan returned an
\* error, whatever the error, and empty if Scan returned none.
C4_ReportTellsScanResult ==
    \A t \in Tasks :
        \A i \in CallsOf(t, "post") : \A j \in CallsOf(t, "scan") :
            /\ trace[t][i].report.ImageSpec \in RequestedImages(t)
            /\ trace[t][j].err.isNil <=> trace[t][i].report.Err = ""

(* -------------------------------- C5 ---------------------------------- *)

\* the answers perceptor gave to the POSTs of the cycle, in order
Answers(t) ==
    [i \in 1..NumCalls(t, "post") |->
        trace[t][Len(trace[t]) - NumCalls(t, "post") + i].resp]

\* C5: finishScan repeats the POST until a 200: with k failing answers
\* before the 200 it makes exactly k + 1 attempts, does not return before
\* the 200, and returns nil right after it.
C5_RetriesUntil200 ==
    \A t \in Tasks :
        /\ (NumCalls(t, "finish") = 1 /\ NumCalls(t, "post") <= failsPlanned[t])
              => pc[t] = "post"
        /\ (NumCalls(t, "finish") = 1 /\ pc[t] # "post") =>
              /\ NumCalls(t, "post") = failsPlanned[t] + 1
              /\ \A i \in 1..failsPlanned[t] : Answers(t)[i] \in PostFailures
              /\ Answers(t)[failsPlanned[t] + 1] = "ok200"
              /\ retErr[t] = Nil
              /\ pc[t] \in IdlePcs \cup {"exited"}

\* a report accepted at the third attempt, after a non-200 and a transport
\* error
C5_Witness ==
    \E t \in Tasks :
        /\ CycleOver(t) /\ NumCalls(t, "post") = 3
        /\ Answers(t) = <<"non200", "transportErr", "ok200">>

(* -------------------------------- C6 ---------------------------------- *)

\* C6: once stop has been closed while the loop is in its idle wait, the
\* loop begins no further cycle: no next-job request, no other call.
C6_StopWhileIdle ==
    \A t \in Tasks :
        stopPc[t] \in IdlePcs => ~lateCycle[t] /\ pc[t] \notin CyclePcs

(* -------------------------------- C7 ---------------------------------- *)

\* the cycle of task t ran to its end: skipped, or reported and accepted
RanToCompletion(t) ==
    \/ Skipped(t)
    \/ \E i \in CallsOf(t, "post") : trace[t][i].resp = "ok200"

\* C7: a stop that arrives while a cycle is in progress does not interrupt
\* the cycle, and takes effect at the next idle wait, before any further
\* next-job request.
C7_StopMidCycle ==
    \A t \in Tasks :
        stopPc[t] \in CyclePcs =>
            /\ pc[t] \notin CyclePcs => CycleOver(t) /\ RanToCompletion(t)
            /\ ~lateCycle[t]

(* -------------------------------- C8 ---------------------------------- *)

Rank(op) ==
    CASE op = "request" -> 1
      [] op = "download" -> 2
      [] op = "scan" -> 3
      [] op = "finish" -> 4
      [] op = "post" -> 5

\* within a cycle: the request first, then provisioning, the scan, the
\* hand-over to finishScan and the POSTs, each at most once but the POSTs;
\* provisioning only while no scan client was cached
C8_OrderInCycle ==
    \A t \in Tasks :
        /\ \A i \in 1..Len(trace[t]) : \A j \in 1..Len(trace[t]) :
              i < j => \/ Rank(trace[t][i].op) < Rank(trace[t][j].op)
                       \/ trace[t][i].op = "post" /\ trace[t][j].op = "post"
        /\ Len(trace[t]) > 0 => trace[t][1].op = "request"
        /\ NumCalls(t, "post") > 0 => NumCalls(t, "scan") = 1
        /\ NumCalls(t, "scan") > 0 => GotImage(t)
        /\ NumCalls(t, "download") > 0 => GotImage(t)

\* a cycle begins only after the previous one has been concluded, and
\* provisioning is called only while no scan client is cached
C8_NextAfterConcluded ==
    \A t \in Tasks :
        /\ (pc[t] # "request" /\ pc'[t] = "request")
              => trace[t] = <<>> \/ RanToCompletion(t)
        /\ NumCalls(t, "download")' > NumCalls(t, "download")
              => scanClient = 0

\* C8: request, provisioning (only without a cached client), scan and
\* report of a job happen in that order, and the next job is requested
\* only after the report of the current one was accepted or the job was
\* abandoned.
C8_StrictOrder == []C8_OrderInCycle /\ [][C8_NextAfterConcluded]_vars

\* the second job is being requested after the first was provisioned,
\* scanned and reported with a retry
C8_Witness ==
    \E t \in Tasks :
        /\ pc[t] = "request" /\ scanClient = 1 /\ failsPlanned[t] > 0
        /\ retErr[t] = Nil /\ finishedJob[t] # NoJob

(* -------------------------------- C9 ---------------------------------- *)

\* the goroutines that run the polling loop
LoopTasks == {t \in Tasks : pc[t] \notin {"unstarted", "exited"}}

\* C9: whatever calls are made on the Scanner, one task runs the loop, no
\* two requestAndRunScanJob are in progress together, and scanClient is
\* written at most once.
C9_SingleLoopTask ==
    /\ Cardinality(LoopTasks) <= 1
    /\ Cardinality({t \in Tasks : pc[t] \in CyclePcs}) <= 1
    /\ clientsBuilt <= 1

(* -------------------------------- C10 --------------------------------- *)

\* C10: on a 200 with a null ImageSpec requestScanJob returns no image and
\* no error, and the cycle ends without provisioning, scan or POST and
\* returns no error to the loop.
C10_NoWork ==
    \A t \in Tasks :
        NoImageReturned(t) =>
            /\ \A i \in CallsOf(t, "request") :
                  trace[t][i].img = NoImage /\ trace[t][i].err = Nil
            /\ Len(trace[t]) = 1
            /\ retErr[t] = Nil
            /\ pc[t] \in IdlePcs \cup {"exited"}

\* a cycle that got no work, after an earlier job had been processed
C10_Witness ==
    \E t \in Tasks :
        CycleOver(t) /\ NoImageReturned(t) /\ finishedJob[t] # NoJob

(* -------------------------------- C11 --------------------------------- *)

\* C11: when the next-image request fails (transport error, non-200 status,
\* unreadable body, malformed JSON) requestScanJob returns an error and no
\* image; the cycle does nothing else and returns the error, and the loop
\* is back in its select with the next tick to come.
C11_RequestFailure ==
    \A t \in Tasks :
        RequestFailed(t) =>
            /\ \A i \in CallsOf(t, "request") :
                  trace[t][i].img = NoImage /\ ~trace[t][i].err.isNil
            /\ Len(trace[t]) = 1
            /\ ~retErr[t].isNil
            /\ pc[t] \in IdlePcs \cup {"exited"}
            /\ pc[t] = "exited" => stopClosed
            /\ pc[t] \in IdlePcs =>
                  ENABLED (TimerFire(t) \/ (timerFired[t] /\ Select(t)))

\* a malformed JSON body was answered, and the loop is blocked in the select
\* waiting for the next tick
C11_Witness ==
    \E t \in Tasks :
        /\ pc[t] = "blocked" /\ ~stopClosed
        /\ \E i \in CallsOf(t, "request") : trace[t][i].resp = "badJSON"

(* -------------------------------- C12 --------------------------------- *)

\* a stop that was closed during the retry loop finds the task still there
C12_StopUnseen ==
    \A t \in Tasks : stopPc[t] = "post" => pc[t] = "post"

\* finishScan does not return
C12_StaysInLoop ==
    \A t \in Tasks : pc[t] = "post" => pc'[t] = "post"

\* C12: with a perceptor that never answers 200 to the finished-job POST,
\* finishScan never returns: the loop does not go back to idle, requests no
\* further job, does not see a stop and does not terminate.
C12_StallsForever == []C12_StopUnseen /\ [][C12_StaysInLoop]_vars

\* the stop was closed during the retry loop and the POSTs go on
C12_Witness ==
    \E t \in Tasks :
        /\ stopPc[t] = "post" /\ pc[t] = "post"
        /\ NumCalls(t, "post") = PostCap(env)

(* -------------------------------- C13 --------------------------------- *)

\* C13: every failed exchange with perceptor records an error metric: a
\* transport error and a non-200 answer in requestScanJob, and every failed
\* attempt (transport error or non-200) in finishScan.
C13_FailuresCounted ==
    \A t \in Tasks : \A i \in 1..Len(trace[t]) :
        (trace[t][i].op \in {"request", "post"}
            /\ trace[t][i].resp \in {"transportErr", "non200"})
        => RecordsScannerError(trace[t][i].op, trace[t][i].resp)

(* -------------------------------- C14 --------------------------------- *)

\* what the call of NewScanner does to the environment and the Scanner
C14_NewScannerStep ==
    (boot = "new" /\ boot' # "new") =>
        IF osEnv[config.PasswordEnvVar] = Unset
        THEN boot' = "failed" /\ scanner' = NoScanner /\ osEnv' = osEnv
        ELSE /\ boot' = "ready"
             /\ osEnv'["BD_HUB_PASSWORD"] = osEnv[config.PasswordEnvVar]
             /\ \A n \in EnvVarNames \ {"BD_HUB_PASSWORD"} :
                   osEnv'[n] = osEnv[n]
             /\ scanner'.hubPassword = osEnv[config.PasswordEnvVar]
             /\ scanClient' = 0

\* only NewScanner writes the environment
C14_LoopLeavesEnv == boot # "new" => osEnv' = osEnv

\* C14: NewScanner fails and returns no Scanner when the variable named by
\* config.Hub.PasswordEnvVar is not set, leaving BD_HUB_PASSWORD as it was;
\* otherwise it publishes exactly the value into BD_HUB_PASSWORD and returns
\* a Scanner without scan client.  The loop never writes the environment.
C14_Bootstrap ==
    /\ [](boot = "failed" => \A t \in Tasks : pc[t] = "unstarted")
    /\ [][C14_NewScannerStep /\ C14_LoopLeavesEnv]_vars

\* a password that is set but empty was published, and the loop has run a
\* cycle
C14_Witness ==
    /\ boot = "ready" /\ config.PasswordEnvVar = "HUB_PASSWORD"
    /\ osEnv["HUB_PASSWORD"] = "" /\ osEnv["BD_HUB_PASSWORD"] = ""
    /\ scanner.hubPassword = ""
    /\ \E t \in Tasks : CycleOver(t)

(* -------------------------------- C15 --------------------------------- *)

MarshalFailed(t) ==
    \E i \in CallsOf(t, "finish") : trace[t][i].resp = "marshalErr"

\* C15: if json.Marshal of the report fails, finishScan records an error
\* metric and returns the error without any POST; the report is dropped and
\* the loop is back in its select with the next tick to come.
C15_EncodeFailure ==
    \A t \in Tasks :
        MarshalFailed(t) =>
            /\ RecordsScannerError("finish", "marshalErr")
            /\ NumCalls(t, "post") = 0
            /\ trace[t][Len(trace[t])].op = "finish"
            /\ retErr[t] = Err("marshalErr")
            /\ pc[t] \in IdlePcs \cup {"exited"}
            /\ pc[t] = "exited" => stopClosed
            /\ pc[t] \in IdlePcs =>
                  ENABLED (TimerFire(t) \/ (timerFired[t] /\ Select(t)))

\* the report of a failed scan could not be marshaled and the loop waits
\* for the next tick
C15_Witness ==
    \E t \in Tasks :
        /\ MarshalFailed(t) /\ pc[t] = "blocked"
        /\ finishedJob[t].Err = "scan failed"

(* -------------------------------- C16 --------------------------------- *)

\* no timer is pending, fired or not, while a cycle runs
C16_NoTickInCycle ==
    \A t \in Tasks : pc[t] \in CyclePcs => ~timerFired[t]

\* the loop comes to its select, from the start or from a cycle, with a
\* timer that has not fired; a timer fires only during the idle wait; and a
\* request is issued only on a timer that fired during that wait
C16_WaitBeforeRequest ==
    \A t \in Tasks :
        /\ (pc[t] \notin IdlePcs /\ pc'[t] \in IdlePcs) =>
              (pc'[t] = "select" /\ ~timerFired'[t])
        /\ (~timerFired[t] /\ timerFired'[t]) =>
              (pc[t] = "select" /\ pc'[t] = "select")
        /\ (pc[t] # "request" /\ pc'[t] = "request") =>
              \/ pc[t] = "select" /\ timerFired[t]
              \/ pc[t] = "blocked" /\ ~timerFired[t]

\* C16: the poll timer is re-armed only after a cycle completes: every
\* next-job request, the first one included, is preceded by one full timer
\* wait that began after the previous cycle ended, so no timer fire
\* accumulates during a cycle and no request follows a cycle back to back.
C16_TimerRearmed == []C16_NoTickInCycle /\ [][C16_WaitBeforeRequest]_vars

\* a second cycle has begun after a cycle that ran a scan to its end
C16_Witness ==
    \E t \in Tasks :
        /\ pc[t] = "request" /\ outcome[t] = "processed"
        /\ ~timerFired[t]

(* -------------------------------- C17 --------------------------------- *)

\* the job of the cycle names a hub other than the one the cached client
\* was downloaded from
OtherHub(t) ==
    /\ clientHub # 0
    /\ \E i \in CallsOf(t, "request") :
          trace[t][i].resp = "image" /\ trace[t][i].img.HubURL # clientHub

\* the client is cached together with the HubURL it was downloaded from,
\* which is that of the job whose download succeeded; a job naming another
\* hub calls no download and is scanned on the cached client, its scan job
\* and its report carrying its own image
C17_CachedForFirstHub ==
    /\ scanClient = 0 <=> clientHub = 0
    /\ \A t \in Tasks :
          /\ \A i \in CallsOf(t, "download") :
                trace[t][i].resp = "ok" => trace[t][i].img.HubURL = clientHub
          /\ OtherHub(t) => NumCalls(t, "download") = 0
          /\ \A i \in CallsOf(t, "scan") :
                /\ trace[t][i].client = scanClient /\ scanClient # 0
                /\ RequestedImages(t) = {trace[t][i].img}
          /\ \A i \in CallsOf(t, "post") :
                RequestedImages(t) = {trace[t][i].report.ImageSpec}

\* the hub of the cached client is set once, by a successful download
C17_HubNeverReplaced ==
    /\ clientHub # 0 => clientHub' = clientHub
    /\ clientHub' # clientHub =>
          \E t \in Tasks :
              /\ pc[t] = "download" /\ clientHub' = image[t].HubURL
              /\ scanClient = 0 /\ scanClient' # 0

\* C17: the executor is provisioned with the HubURL of the job that
\* triggered the first successful provisioning; a later job whose HubURL
\* differs does not trigger re-provisioning and is scanned with the cached
\* executor, while its scan job and its report carry its own HubURL.
C17_FirstHubWins == []C17_CachedForFirstHub /\ [][C17_HubNeverReplaced]_vars

\* a job of another hub was scanned on the cached client and reported
C17_Witness ==
    \E t \in Tasks :
        /\ CycleOver(t) /\ OtherHub(t)
        /\ NumCalls(t, "scan") = 1 /\ NumCalls(t, "download") = 0
        /\ \E i \in CallsOf(t, "post") :
              /\ trace[t][i].resp = "ok200"
              /\ trace[t][i].report.ImageSpec.HubURL # clientHub

(* -------------------------------- C18 --------------------------------- *)

\* a loop that has returned has seen the stop
C18_ExitedOnStop ==
    \A t \in Tasks : pc[t] = "exited" => stopClosed

\* a cycle, however it ends, leads back to the select, and the loop returns
\* only from its idle wait, on the stop case
C18_LeavesOnlyOnStop ==
    \A t \in Tasks :
        /\ (pc[t] \in CyclePcs /\ pc'[t] \notin CyclePcs) => pc'[t] = "select"
        /\ (pc[t] # "exited" /\ pc'[t] = "exited") =>
              pc[t] \in IdlePcs /\ stopClosed'

\* every cycle of the loop comes to its end, and once the loop is started
\* and its stop channel closed, the loop returns
C18_Terminates ==
    /\ (pc[1] \in CyclePcs) ~> (pc[1] = "select")
    /\ (stopClosed /\ pc[1] # "unstarted") ~> (pc[1] = "exited")

\* C18: the polling loop never exits on its own: whatever the outcome of a
\* cycle, the loop goes back to its idle wait and returns only on the stop
\* signal; and under fairness, once stop is closed, every call returns and
\* perceptor eventually answers 200 to the POST, the loop returns.
C18_RunsUntilStopped ==
    /\ []C18_ExitedOnStop
    /\ [][C18_LeavesOnlyOnStop]_vars
    /\ C18_Terminates

\* the loop has returned on a stop that came during a cycle which ended
\* with an error
C18_Witness ==
    \E t \in Tasks :
        /\ pc[t] = "exited" /\ stopPc[t] \in CyclePcs
        /\ ~retErr[t].isNil

(* -------------------------------- C19 --------------------------------- *)

\* a step of the cycle of task t
CycleStep(t) == pc[t] \in CyclePcs /\ pc'[t] # pc[t]

\* a cycle that was skipped holds no successful download
C19_SkippedBuiltNothing ==
    \A t \in Tasks :
        Skipped(t) =>
            \A i \in CallsOf(t, "download") : trace[t][i].resp # "ok"

\* no step changes the config, the perceptor host and port, the stop
\* channel, the http client or the password of the Scanner; a step of a
\* cycle does not close stop; scanClient is assigned only by the download
\* step of a cycle, from nil to a client; the step that ends a cycle by
\* skipping the job assigns nothing
C19_OnlyScanClient ==
    /\ scanner' = scanner /\ config' = config
    /\ \A t \in Tasks : CycleStep(t) => stopClosed' = stopClosed
    /\ scanClient' # scanClient =>
          /\ scanClient = 0 /\ scanClient' # 0
          /\ \E t \in Tasks : CycleStep(t) /\ pc[t] = "download"
    /\ \A t \in Tasks :
          (CycleStep(t) /\ pc'[t] = "select" /\ Skipped(t)')
              => scanClient' = scanClient

\* C19: a poll cycle changes no Scanner state but the one assignment of
\* scanClient from nil to a client: a cycle that ends in a failed request,
\* no image or a failed provisioning leaves every field as it was, and the
\* config, perceptor host and port, stop channel and password are never
\* modified by a cycle.
C19_Frame == []C19_SkippedBuiltNothing /\ [][C19_OnlyScanClient]_vars

\* with a client cached, a cycle was skipped for a failed request, the
\* Scanner being as NewScanner made it
C19_Witness ==
    \E t \in Tasks :
        /\ CycleOver(t) /\ RequestFailed(t) /\ scanClient = 1
        /\ scanner = NewScanner(SomeConfig, SomeOsEnv).scanner

(* -------------------------------- C20 --------------------------------- *)

\* C20: every response body received from perceptor is closed before the
\* next HTTP request: none is open once requestScanJob has returned, at
\* most one is open during the retry loop of finishScan, and none is open
\* while the loop is idle.
C20_BodiesClosed ==
    \A t \in Tasks :
        /\ cycleBodies[t] <= 1
        /\ pc[t] \in {"provision", "download", "scan", "finish"} =>
              cycleBodies[t] = 0
        /\ pc[t] \in IdlePcs \cup {"exited"} => cycleBodies[t] = 0

====
